---- MODULE Spec2Model ----
(***************************************************************************)
(* State-machine model of the Syriac parse-tree walker:                    *)
(*   src/responses.py  answer shapes, get_part, __str__, response_tree     *)
(*   src/utils/api.py  MessageQueue, ClientDashScope.request               *)
(*   src/parser.py     Parser.parse_word, parse_sentence, parse            *)
(*                                                                         *)
(* Python strings are sequences of one-character strings.  The character   *)
(* U+2205 (the empty-set sign of responses.py:6) is written "U+2205".      *)
(* The recursion of parse_word is an explicit stack of activation records; *)
(* every step of the model contains at most one request to the answer      *)
(* service, whose completion is the step's nondeterministic input.         *)
(***************************************************************************)
EXTENDS Integers, Sequences, FiniteSets, TLC

VARIABLES
    pc,          \* "parse": in the loop of parse; "words": in the loop of
                 \* parse_sentence; "done": parse has returned; "crashed":
                 \* an exception has left parse
    sentIdx,     \* number of sentences parse has taken from the corpus
    words,       \* the words of the current sentence
    wi,          \* number of words the loop of parse_sentence has taken
    stack,       \* the activation records of parse_word, root call first
    file,        \* the lines written to the output file
    queue,       \* the MessageQueue of the current sentence
    console,     \* what has been printed
    response,    \* the string the last request returned
    completion,  \* the completion the last request received
    raised,      \* the exception that left the last root call of parse_word
    visited,     \* the parse_word calls made for the current top-level word
    nreq,        \* number of requests issued
    tree         \* the tree definition in use

vars == <<pc, sentIdx, words, wi, stack, file, queue, console,
          response, completion, raised, visited, nreq, tree>>

\* ------------------------------------------------------------------ bounds
\* number of sentences of the corpus
NumSentences == 2
\* total number of top-level words the list-words answers of one run hold
MaxWords == 2

\* ------------------------------------------------------------- text values
Min(a, b) == IF a < b THEN a ELSE b
Max(a, b) == IF a > b THEN a ELSE b

\* word[start:stop] of Python: negative bounds count from the end, all
\* bounds are clamped to 0..len(word)
SliceBound(k, n) == IF k < 0 THEN Max(k + n, 0) ELSE Min(k, n)
PySlice(word, start, stop) ==
    LET n  == Len(word)
        lo == SliceBound(start, n)
        hi == SliceBound(stop, n)
    IN  IF lo < hi THEN SubSeq(word, lo + 1, hi) ELSE <<>>

\* JSON / Python values carried by a payload
JNull == [t |-> "null"]
JStr(s) == [t |-> "str", s |-> s]
JList(items) == [t |-> "list", items |-> items]

\* `value or default` on an Optional[str]: None and '' are both falsy
PyOr(v, default) == IF v.t = "str" /\ v.s # <<>> THEN v.s ELSE default

\* str() of an Optional[str], as an f-string formats it
PyFormat(v) == IF v.t = "str" THEN v.s ELSE <<"N", "o", "n", "e">>

empty == <<"U+2205">>

\* ---------------------------------------------------------------- payloads
\* the raw argument string of a tool call: either text that is no JSON
\* object, or a JSON object (a record of JSON values)
TextPayload(x) == [kind |-> "text", text |-> x]
ObjPayload(o) == [kind |-> "object", obj |-> o]
EmptyPayload == TextPayload("")

ListWordsResponse == "ListWordsResponse"
PrefixedAnalyticalWordResponse == "PrefixedAnalyticalWordResponse"
SuffixedPronounResponse == "SuffixedPronounResponse"
CompleteFormResponse == "CompleteFormResponse"
PrefixedSuffixedMorphemeResponse == "PrefixedSuffixedMorphemeResponse"
MorphemeTypeResponse == "MorphemeTypeResponse"

\* the declared fields of each pydantic model; no field has a default, so
\* every field is required, and extra='forbid' rejects any other key
Fields(shape) ==
    CASE shape = ListWordsResponse -> [words |-> "list[str]"]
      [] shape = PrefixedAnalyticalWordResponse -> [prefix |-> "str | None"]
      [] shape = SuffixedPronounResponse -> [suffix |-> "str | None"]
      [] shape = CompleteFormResponse -> [complete |-> "str"]
      [] shape = PrefixedSuffixedMorphemeResponse ->
             [prefix |-> "str | None", suffix |-> "str | None"]
      [] shape = MorphemeTypeResponse -> [morpheme_type |-> "str"]

Conforms(v, type) ==
    CASE type = "str" -> v.t = "str"
      [] type = "str | None" -> v.t \in {"str", "null"}
      [] type = "list[str]" -> v.t = "list"

\* a variant of model_validate_json that takes the empty string for an answer
model_validate_json_empty_ok(shape, payload) ==
    \/ payload = EmptyPayload
    \/ /\ payload.kind = "object"
       /\ DOMAIN payload.obj = DOMAIN Fields(shape)
       /\ \A f \in DOMAIN Fields(shape) : Conforms(payload.obj[f], Fields(shape)[f])

\* shape.model_validate_json(payload) succeeds
model_validate_json(shape, payload) ==
    /\ payload.kind = "object"
    /\ DOMAIN payload.obj = DOMAIN Fields(shape)
    /\ \A f \in DOMAIN Fields(shape) : Conforms(payload.obj[f], Fields(shape)[f])

\* ---------------------------------------------------- get_part and __str__
\* the outcome of a get_part call: the returned string, or ValueError
Returned(s) == [raised |-> FALSE, value |-> s]
ValueError == [raised |-> TRUE, value |-> <<>>]

\* a variant of PrefixedAnalyticalWord_get_part without the case of index 1
PrefixedAnalyticalWord_get_part_one(res, word, index) ==
    LET prefix == PyOr(res.prefix, <<>>)
    IN  CASE index = 0 -> Returned(prefix)
          [] OTHER -> ValueError

PrefixedAnalyticalWord_get_part(res, word, index) ==
    LET prefix == PyOr(res.prefix, <<>>)
    IN  CASE index = 0 -> Returned(prefix)
          [] index = 1 -> Returned(PySlice(word, Len(prefix), Len(word)))
          [] OTHER -> ValueError

SuffixedPronoun_get_part(res, word, index) ==
    LET suffix == PyOr(res.suffix, <<>>)
    IN  CASE index = 0 -> Returned(PySlice(word, 0, Len(word) - Len(suffix)))
          [] index = 1 -> Returned(suffix)
          [] OTHER -> ValueError

CompleteForm_get_part(res, word, index) == Returned(res.complete.s)

PrefixedSuffixedMorpheme_get_part(res, word, index) ==
    LET prefix == PyOr(res.prefix, <<>>)
        suffix == PyOr(res.suffix, <<>>)
    IN  CASE index = 0 -> Returned(prefix)
          [] index = 1 ->
               Returned(PySlice(word, Len(prefix), Len(word) - Len(suffix)))
          [] index = 2 -> Returned(suffix)
          [] OTHER -> ValueError

MorphemeType_get_part(res, word, index) == Returned(res.morpheme_type.s)

get_part(shape, res, word, index) ==
    CASE shape = PrefixedAnalyticalWordResponse ->
             PrefixedAnalyticalWord_get_part(res, word, index)
      [] shape = SuffixedPronounResponse ->
             SuffixedPronoun_get_part(res, word, index)
      [] shape = CompleteFormResponse ->
             CompleteForm_get_part(res, word, index)
      [] shape = PrefixedSuffixedMorphemeResponse ->
             PrefixedSuffixedMorpheme_get_part(res, word, index)
      [] shape = MorphemeTypeResponse ->
             MorphemeType_get_part(res, word, index)

\* __str__: the display line, as the sequence of its literal and formatted
\* pieces
\* a variant of PrefixedAnalyticalWord_str that formats the field itself
PrefixedAnalyticalWord_str_raw(res) == <<"Prefix: ", PyFormat(res.prefix)>>

PrefixedAnalyticalWord_str(res) == <<"Prefix: ", PyOr(res.prefix, empty)>>

SuffixedPronoun_str(res) == <<"Suffix: ", PyOr(res.suffix, empty)>>

CompleteForm_str(res) == <<"Complete form: ", PyOr(res.complete, empty)>>

PrefixedSuffixedMorpheme_str(res) ==
    <<"Prefix: ", PyOr(res.prefix, empty), ", Suffix: ", PyOr(res.suffix, empty)>>

MorphemeType_str(res) == <<"Morpheme type: ", PyOr(res.morpheme_type, empty)>>

str(shape, res) ==
    CASE shape = PrefixedAnalyticalWordResponse -> PrefixedAnalyticalWord_str(res)
      [] shape = SuffixedPronounResponse -> SuffixedPronoun_str(res)
      [] shape = CompleteFormResponse -> CompleteForm_str(res)
      [] shape = PrefixedSuffixedMorphemeResponse ->
             PrefixedSuffixedMorpheme_str(res)
      [] shape = MorphemeTypeResponse -> MorphemeType_str(res)

\* get_question(word) of a shape, get_question_message(sentence) for the
\* list question: the template is named by its shape, the argument is kept
get_question(shape, word) == [template |-> shape, arg |-> word]
get_question_message(sentence) == [template |-> ListWordsResponse, arg |-> sentence]

\* ------------------------------------------------------------------- trees
\* Nodes are numbered in the order responses.py writes them; 0 is None.
NoChild == 0
response_tree == 1
Nodes == 1..8

response_type(node) ==
    CASE node = 1 -> PrefixedAnalyticalWordResponse
      [] node = 2 -> SuffixedPronounResponse
      [] node = 3 -> CompleteFormResponse
      [] node = 4 -> PrefixedSuffixedMorphemeResponse
      [] node \in {5, 6, 7} -> MorphemeTypeResponse
      [] node = 8 -> CompleteFormResponse

\* a variant of the tree with a node below a MorphemeType node
authored_children_deeper(node) ==
    CASE node = 1 -> <<NoChild, 2>>
      [] node = 2 -> <<3, 8>>
      [] node = 3 -> <<4>>
      [] node = 4 -> <<5, 6, 7>>
      [] node = 5 -> <<8>>
      [] OTHER -> <<>>

\* a variant of the tree in which both slots of the SuffixedPronoun node
\* hold the same node
authored_children_shared(node) ==
    CASE node = 1 -> <<NoChild, 2>>
      [] node = 2 -> <<3, 3>>
      [] node = 3 -> <<4>>
      [] node = 4 -> <<5, 6, 7>>
      [] OTHER -> <<>>

authored_children(node) ==
    CASE node = 1 -> <<NoChild, 2>>
      [] node = 2 -> <<3, 8>>
      [] node = 3 -> <<4>>
      [] node = 4 -> <<5, 6, 7>>
      [] OTHER -> <<>>

\* a tree definition with a defect: the root, a two-part shape, is given a
\* third child slot
excess_slot_children(node) ==
    IF node = 1 THEN <<NoChild, 2, NoChild>> ELSE authored_children(node)

children(node) ==
    IF tree = "authored" THEN authored_children(node)
    ELSE excess_slot_children(node)

\* ------------------------------------------------------------ MessageQueue
\* tool_calls=None of a Message
None == <<>>
NoText == [template |-> "", arg |-> <<>>]
system_message == [template |-> "system_message", arg |-> <<>>]

Message(role, content, tool_calls) ==
    [role |-> role, content |-> content, tool_calls |-> tool_calls]

ToolMessage(role, content, tool_calls, tool_call_id, name) ==
    [role |-> role, content |-> content, tool_calls |-> tool_calls,
     tool_call_id |-> tool_call_id, name |-> name]

MessageQueue == [messages |-> <<>>, argument |-> EmptyPayload]

\* a variant of register_message that puts the entry at the front
register_message_front(q, role, content) ==
    [q EXCEPT !.messages = <<Message(role, content, None)>> \o @]

register_message(q, role, content) ==
    [q EXCEPT !.messages = Append(@, Message(role, content, None))]

register_system_message(q, content) == register_message(q, "system", content)

\* the content is wrapped in the quoting frame  Text: """ ... """
register_user_message(q, content) ==
    register_message(q, "user",
                     [template |-> <<"Text: ", content.template>>, arg |-> content.arg])

\* a completion of the answer service: its status, and for status OK the
\* one tool call of the forced tool_choice
HTTPStatus_OK == "OK"
Completion(status_code, tool, arguments) ==
    [status_code |-> status_code,
     calls |-> <<[id |-> "call_id", name |-> tool, arguments |-> arguments]>>]

\* a variant of register_response that keeps the payload on a failure
register_response_stale(q, c) ==
    IF c.status_code = HTTPStatus_OK
    THEN [messages |-> q.messages
                         \o <<Message("assistant", NoText, c.calls),
                              ToolMessage("tool", NoText, None,
                                          c.calls[1].id, c.calls[1].name)>>,
          argument |-> c.calls[1].arguments]
    ELSE q

register_response(q, c) ==
    IF c.status_code = HTTPStatus_OK
    THEN [messages |-> q.messages
                         \o <<Message("assistant", NoText, c.calls),
                              ToolMessage("tool", NoText, None,
                                          c.calls[1].id, c.calls[1].name)>>,
          argument |-> c.calls[1].arguments]
    ELSE [q EXCEPT !.argument = EmptyPayload]

\* what register_response prints
register_response_print(c) ==
    IF c.status_code = HTTPStatus_OK THEN <<>>
    ELSE <<[text |-> "Request error", value |-> EmptyPayload]>>

\* ClientDashScope.request: one call of the service, then register_response;
\* returns the queue and queue.argument
request(q, c) ==
    LET q1 == register_response(q, c)
    IN  [queue |-> q1, returned |-> q1.argument]

\* ----------------------------------------------- inputs: words and answers
A == <<"a">>
B == <<"b">>
AB == <<"a", "b">>
ABB == <<"a", "b", "b">>

\* the words a list-words answer may name
Words == {<<>>, AB}

\* the sentences of the corpus, already split and stripped
Corpus == [k \in 1..NumSentences |-> <<"sentence", ToString(k)>>]

RECURSIVE ListsUpTo(_)
ListsUpTo(n) ==
    IF n <= 0 THEN {<<>>}
    ELSE LET shorter == ListsUpTo(n - 1)
         IN  shorter \cup {Append(l, w) : l \in {s \in shorter : Len(s) = n - 1},
                                            w \in Words}

Garbage == TextPayload("not json")

\* the argument strings the service may return for a question of a shape:
\* one malformed payload (an object that omits a field for the shapes with
\* an optional field, text that is no JSON for the others) and well-formed
\* ones; room is the number of words a list answer may still name
Payloads(shape, room) ==
    CASE shape = ListWordsResponse ->
             {Garbage} \cup {ObjPayload([words |-> JList(l)]) : l \in ListsUpTo(room)}
      [] shape = PrefixedAnalyticalWordResponse ->
             {ObjPayload(<<>>)}
             \cup {ObjPayload([prefix |-> v]) : v \in {JNull, JStr(A)}}
      [] shape = SuffixedPronounResponse ->
             {ObjPayload(<<>>)}
             \cup {ObjPayload([suffix |-> v]) : v \in {JNull, JStr(B)}}
      [] shape = CompleteFormResponse ->
             {Garbage} \cup {ObjPayload([complete |-> JStr(ABB)])}
      [] shape = PrefixedSuffixedMorphemeResponse ->
             {ObjPayload([prefix |-> JStr(A)]),
              ObjPayload([prefix |-> JNull, suffix |-> JNull]),
              ObjPayload([prefix |-> JStr(A), suffix |-> JStr(B)])}
      [] shape = MorphemeTypeResponse ->
             {Garbage}
             \cup {ObjPayload([morpheme_type |-> v]) :
                      v \in {JStr(<<"preformative">>), JStr(<<"adverb">>)}}

Completions(shape, room) ==
    {Completion(HTTPStatus_OK, shape, p) : p \in Payloads(shape, room)}
    \cup {[status_code |-> "INTERNAL_SERVER_ERROR", calls |-> <<>>]}

\* ------------------------------------------------------------------ Parser
\* self.pad is four spaces; an indentation is kept as its number of spaces
pad == 4

Blank == [indent |-> 0, kind |-> "blank", text |-> <<>>]
SentenceLine(sentence) == [indent |-> 0, kind |-> "Sentence", text |-> sentence]
WordLine(indent, word) == [indent |-> pad * indent, kind |-> "Word", text |-> word]
\* a variant of AnswerLine one level less deep
AnswerLine_level(indent, text) ==
    [indent |-> pad * (indent - 1), kind |-> "answer", text |-> text]
AnswerLine(indent, text) == [indent |-> pad * indent, kind |-> "answer", text |-> text]

\* what the except branches print: the raw response, then the warning
Printed(text) == [text |-> text, value |-> EmptyPayload]
invalid_json_print(resp) ==
    <<[text |-> "response", value |-> resp],
      Printed("LLM has returned an invalid JSON!")>>

Top == stack[Len(stack)]
Walked == Len(SelectSeq(file, LAMBDA l : l.kind = "Word" /\ l.indent = 0))

\* where control is after the loop of parse_sentence has taken `taken` of
\* its words and parse `sentences` of its sentences: in the next word, in
\* the next sentence, or out of parse
loop_next(taken, list, sentences) ==
    IF taken < Len(list) THEN "words"
    ELSE IF sentences < NumSentences THEN "parse" ELSE "done"

\* a variant of line 61 that falls back to a word
words_on_invalid_list_fallback == <<AB>>

\* parse_sentence, line 61: the words of a sentence whose list answer
\* failed validation
words_on_invalid_list == <<>>

\* a variant of parse_sentence without the except branch: the exception
\* leaves parse_sentence and parse
parse_sentence_no_except(exc, file1, console1) ==
    /\ raised' = exc
    /\ stack' = <<>>
    /\ console' = console1
    /\ file' = file1
    /\ pc' = "crashed"

\* parse_sentence, lines 65-67: an exception leaving parse_word is caught,
\* the warning is printed, the separator is written and the loop goes on
parse_sentence_except(exc, file1, console1) ==
    /\ raised' = exc
    /\ stack' = <<>>
    /\ console' = Append(console1, Printed("Sentence parsing failed!"))
    /\ file' = Append(file1, Blank)
    /\ pc' = loop_next(wi', words, sentIdx)

\* a variant of line 47 with the test of the part inverted
should_recurse_inverted(child, word_part) == child # NoChild /\ word_part = <<>>

\* parse_word, line 47
should_recurse(child, word_part) == child # NoChild /\ word_part # <<>>

\* a variant of parse_word whose except branch returns instead of raising
parse_word_enter_swallow(c, word, node, indent, callers) ==
    LET shape == response_type(node)
        file1 == file \o <<Blank, WordLine(indent, word)>>
        r     == request(register_user_message(queue, get_question(shape, word)), c)
        valid == model_validate_json(shape, r.returned)
        con1  == console \o register_response_print(c)
    IN  /\ queue' = r.queue
        /\ response' = r.returned
        /\ completion' = c
        /\ nreq' = nreq + 1
        /\ visited' = Append(IF callers = <<>> THEN <<>> ELSE visited,
                             [node |-> node, word |-> word, indent |-> indent,
                              response |-> r.returned, valid |-> valid])
        /\ raised' = "none"
        /\ IF valid
           THEN /\ file' = Append(file1, AnswerLine(indent + 1, str(shape, r.returned.obj)))
                /\ stack' = Append(callers, [node |-> node, word |-> word,
                                             indent |-> indent,
                                             res |-> r.returned.obj, i |-> 0])
                /\ console' = con1
                /\ pc' = "words"
           ELSE /\ console' = con1 \o invalid_json_print(r.returned)
                /\ stack' = callers
                /\ file' = IF callers = <<>> THEN Append(file1, Blank) ELSE file1
                /\ pc' = IF callers = <<>> THEN loop_next(wi', words, sentIdx)
                         ELSE "words"

\* parse_word, lines 35-44, called with (word, node, indent) on the
\* activation records callers; c is the completion of its request
parse_word_enter(c, word, node, indent, callers) ==
    LET shape == response_type(node)
        file1 == file \o <<Blank, WordLine(indent, word)>>
        r     == request(register_user_message(queue, get_question(shape, word)), c)
        valid == model_validate_json(shape, r.returned)
        con1  == console \o register_response_print(c)
    IN  /\ queue' = r.queue
        /\ response' = r.returned
        /\ completion' = c
        /\ nreq' = nreq + 1
        /\ visited' = Append(IF callers = <<>> THEN <<>> ELSE visited,
                             [node |-> node, word |-> word, indent |-> indent,
                              response |-> r.returned, valid |-> valid])
        /\ IF valid
           THEN /\ file' = Append(file1, AnswerLine(indent + 1, str(shape, r.returned.obj)))
                /\ stack' = Append(callers, [node |-> node, word |-> word,
                                             indent |-> indent,
                                             res |-> r.returned.obj, i |-> 0])
                /\ console' = con1
                /\ raised' = "none"
                /\ pc' = "words"
           ELSE parse_sentence_except("ValidationError", file1,
                                      con1 \o invalid_json_print(r.returned))

\* parse_sentence, lines 51-61
ParseSentence(c) ==
    /\ pc = "parse"
    /\ sentIdx < NumSentences
    /\ LET sentence == Corpus[sentIdx + 1]
           q0 == register_user_message(
                     register_system_message(MessageQueue, system_message),
                     get_question_message(sentence))
           r  == request(q0, c)
           valid == model_validate_json(ListWordsResponse, r.returned)
       IN  /\ file' = Append(file, SentenceLine(sentence))
           /\ queue' = r.queue
           /\ response' = r.returned
           /\ completion' = c
           /\ words' = IF valid THEN r.returned.obj.words.items
                        ELSE words_on_invalid_list
           /\ console' = console \o register_response_print(c)
                            \o (IF valid THEN <<>> ELSE invalid_json_print(r.returned))
    /\ sentIdx' = sentIdx + 1
    /\ wi' = 0
    /\ nreq' = nreq + 1
    /\ pc' = loop_next(0, words', sentIdx + 1)
    /\ UNCHANGED <<stack, raised, visited, tree>>

\* a variant of CallParseWord that gives every word a conversation of its
\* own, begun with the first two entries of the sentence's
CallParseWord_fresh(c) ==
    /\ pc = "words"
    /\ stack = <<>>
    /\ wi < Len(words)
    /\ wi' = wi + 1
    /\ UNCHANGED <<sentIdx, words, tree>>
    /\ LET word  == words[wi + 1]
           shape == response_type(response_tree)
           own   == [queue EXCEPT !.messages = SubSeq(@, 1, 2)]
           file1 == file \o <<Blank, WordLine(0, word)>>
           r     == request(register_user_message(own, get_question(shape, word)), c)
           valid == model_validate_json(shape, r.returned)
           con1  == console \o register_response_print(c)
       IN  /\ queue' = r.queue
           /\ response' = r.returned
           /\ completion' = c
           /\ nreq' = nreq + 1
           /\ visited' = <<[node |-> response_tree, word |-> word, indent |-> 0,
                            response |-> r.returned, valid |-> valid]>>
           /\ IF valid
              THEN /\ file' = Append(file1, AnswerLine(1, str(shape, r.returned.obj)))
                   /\ stack' = <<[node |-> response_tree, word |-> word, indent |-> 0,
                                  res |-> r.returned.obj, i |-> 0]>>
                   /\ console' = con1
                   /\ raised' = "none"
                   /\ pc' = "words"
              ELSE parse_sentence_except("ValidationError", file1,
                                         con1 \o invalid_json_print(r.returned))

\* parse_sentence, lines 62-64: the loop takes the next word and calls
\* parse_word at the root of the tree
CallParseWord(c) ==
    /\ pc = "words"
    /\ stack = <<>>
    /\ wi < Len(words)
    /\ wi' = wi + 1
    /\ UNCHANGED <<sentIdx, words, tree>>
    /\ parse_word_enter(c, words[wi + 1], response_tree, 0, <<>>)

\* a variant of LoopSkip that passes over the slot after the unexplored one
LoopSkip_two ==
    /\ pc = "words"
    /\ stack # <<>>
    /\ Top.i < Len(children(Top.node))
    /\ LET part == get_part(response_type(Top.node), Top.res, Top.word, Top.i)
       IN  /\ ~part.raised
           /\ ~should_recurse(children(Top.node)[Top.i + 1], part.value)
    /\ stack' = [stack EXCEPT ![Len(stack)].i = Min(@ + 2, Len(children(Top.node)))]
    /\ UNCHANGED <<pc, sentIdx, words, wi, file, queue, console, response,
                   completion, raised, visited, nreq, tree>>

\* parse_word, lines 45-47: a child slot that is not explored
LoopSkip ==
    /\ pc = "words"
    /\ stack # <<>>
    /\ Top.i < Len(children(Top.node))
    /\ LET part == get_part(response_type(Top.node), Top.res, Top.word, Top.i)
       IN  /\ ~part.raised
           /\ ~should_recurse(children(Top.node)[Top.i + 1], part.value)
    /\ stack' = [stack EXCEPT ![Len(stack)].i = @ + 1]
    /\ UNCHANGED <<pc, sentIdx, words, wi, file, queue, console, response,
                   completion, raised, visited, nreq, tree>>

\* a variant of lines 45-48 that returns the child's call: the slots after
\* an explored one are not looked at
LoopRecurse_return(c) ==
    /\ pc = "words"
    /\ stack # <<>>
    /\ Top.i < Len(children(Top.node))
    /\ UNCHANGED <<sentIdx, words, wi, tree>>
    /\ LET part  == get_part(response_type(Top.node), Top.res, Top.word, Top.i)
           child == children(Top.node)[Top.i + 1]
       IN  /\ ~part.raised
           /\ should_recurse(child, part.value)
           /\ parse_word_enter(c, part.value, child, Top.indent + 1,
                               [stack EXCEPT ![Len(stack)].i = Len(children(Top.node))])

\* parse_word, lines 45-48: a child slot that is explored
LoopRecurse(c) ==
    /\ pc = "words"
    /\ stack # <<>>
    /\ Top.i < Len(children(Top.node))
    /\ UNCHANGED <<sentIdx, words, wi, tree>>
    /\ LET part  == get_part(response_type(Top.node), Top.res, Top.word, Top.i)
           child == children(Top.node)[Top.i + 1]
       IN  /\ ~part.raised
           /\ should_recurse(child, part.value)
           /\ parse_word_enter(c, part.value, child, Top.indent + 1,
                               [stack EXCEPT ![Len(stack)].i = @ + 1])

\* parse_word, line 46: get_part raises ValueError, which no parse_word
\* catches and parse_sentence does
LoopRaise ==
    /\ pc = "words"
    /\ stack # <<>>
    /\ Top.i < Len(children(Top.node))
    /\ get_part(response_type(Top.node), Top.res, Top.word, Top.i).raised
    /\ UNCHANGED <<sentIdx, words, wi, queue, response, completion, visited,
                   nreq, tree>>
    /\ parse_sentence_except("ValueError", file, console)

\* parse_word returns after its last child slot; the return of the root
\* call is followed by the separator of parse_sentence, line 67, and by the
\* next turn of the loops
Return ==
    /\ pc = "words"
    /\ stack # <<>>
    /\ Top.i = Len(children(Top.node))
    /\ stack' = SubSeq(stack, 1, Len(stack) - 1)
    /\ file' = IF Len(stack) = 1 THEN Append(file, Blank) ELSE file
    /\ pc' = IF Len(stack) = 1 THEN loop_next(wi, words, sentIdx) ELSE pc
    /\ UNCHANGED <<sentIdx, words, wi, queue, console, response,
                   completion, raised, visited, nreq, tree>>

\* the number of words the list answers of this run may still name
Room == MaxWords - Walked - (Len(words) - wi)

Init ==
    /\ pc = "parse"
    /\ sentIdx = 0
    /\ words = <<>>
    /\ wi = 0
    /\ stack = <<>>
    /\ file = <<>>
    /\ queue = MessageQueue
    /\ console = <<>>
    /\ response = EmptyPayload
    /\ completion = [status_code |-> "none", calls |-> <<>>]
    /\ raised = "none"
    /\ visited = <<>>
    /\ nreq = 0
    /\ tree = "authored"

Next ==
    \/ \E c \in Completions(ListWordsResponse, Room) : ParseSentence(c)
    \/ \E c \in Completions(response_type(response_tree), 0) : CallParseWord(c)
    \/ LoopSkip
    \/ \E n \in Nodes : \E c \in Completions(response_type(n), 0) :
           /\ stack # <<>>
           /\ Top.i < Len(children(Top.node))
           /\ n = children(Top.node)[Top.i + 1]
           /\ LoopRecurse(c)
    \/ Return

Spec == Init /\ [][Next]_vars

\* parse is one sequential loop: it takes its next step whenever it has one
FairSpec == Spec /\ WF_vars(Next)

\* the walker run on a tree definition with a defect
InitT ==
    /\ pc = "parse"
    /\ sentIdx = 0
    /\ words = <<>>
    /\ wi = 0
    /\ stack = <<>>
    /\ file = <<>>
    /\ queue = MessageQueue
    /\ console = <<>>
    /\ response = EmptyPayload
    /\ completion = [status_code |-> "none", calls |-> <<>>]
    /\ raised = "none"
    /\ visited = <<>>
    /\ nreq = 0
    /\ tree = "excess_slot"

NextT ==
    \/ Next
    \/ LoopRaise

SpecT == InitT /\ [][NextT]_vars

\* ================================================================= claims
Last(seq) == seq[Len(seq)]
IsPrefix(s, t) == Len(s) <= Len(t) /\ SubSeq(t, 1, Len(s)) = s

\* the shape of the last question registered in a queue
Asked(q) ==
    LET users == SelectSeq(q.messages, LAMBDA m : m.role = "user")
    IN  Last(users).content.template[2]

\* the indices a multi-part variant defines
PartIndices(shape) ==
    CASE shape = PrefixedAnalyticalWordResponse -> <<0, 1>>
      [] shape = SuffixedPronounResponse -> <<0, 1>>
      [] shape = PrefixedSuffixedMorphemeResponse -> <<0, 1, 2>>
      [] OTHER -> <<>>

\* the part the k-th call of the current walk hands to child slot i
Part(k, i) ==
    get_part(response_type(visited[k].node), visited[k].response.obj,
             visited[k].word, i).value

RECURSIVE JoinParts(_, _)
JoinParts(k, indices) ==
    IF indices = <<>> THEN <<>>
    ELSE Part(k, Head(indices)) \o JoinParts(k, Tail(indices))

\* C1: for every word and every validated answer of a multi-part variant,
\* the parts get_part returns over the variant's indices, concatenated in
\* increasing index order, are the word.
C1_PartsRebuildWord ==
    \A k \in 1..Len(visited) :
        (visited[k].valid /\ PartIndices(response_type(visited[k].node)) # <<>>)
        => JoinParts(k, PartIndices(response_type(visited[k].node))) = visited[k].word

\* a request is made in this step and the payload it returns fails the
\* validation against the shape asked for
InvalidPayloadStep ==
    /\ nreq' # nreq
    /\ ~model_validate_json(Asked(queue'), response')

Warned ==
    /\ Len(console') > Len(console)
    /\ \E k \in (Len(console) + 1)..Len(console') :
           console'[k] = Printed("LLM has returned an invalid JSON!")

SentenceHeaders == Len(SelectSeq(file, LAMBDA l : l.kind = "Sentence"))

\* C2: a payload that fails validation, for the list question or a node
\* question, is answered by a printed warning and never by an exception
\* leaving parse: the loops go on, every word of every list is taken, every
\* sentence of the corpus is taken, and parse is never stopped before it
\* returns.
C2_InvalidPayloadRecovered ==
    /\ [][InvalidPayloadStep => (Warned /\ pc' \in {"words", "parse", "done"})]_vars
    /\ [](pc # "crashed")
    /\ [](pc \in {"parse", "done"} => wi = Len(words))
    /\ [](pc = "done" => (sentIdx = NumSentences /\ SentenceHeaders = NumSentences))
    /\ [](pc = "done" \/ ENABLED Next)

\* a first word whose walk failed, and the second word of the same sentence
\* being walked
C2_Witness ==
    /\ wi = 2
    /\ stack # <<>>
    /\ \E k \in 1..Len(console) : console[k] = Printed("Sentence parsing failed!")
    /\ \E k \in 1..Len(console) : console[k] = Printed("LLM has returned an invalid JSON!")

\* the next iteration of the loop of parse_word calls get_part with an
\* index outside the variant's range
OutOfRangeCall ==
    /\ stack # <<>>
    /\ Top.i < Len(children(Top.node))
    /\ get_part(response_type(Top.node), Top.res, Top.word, Top.i).raised

\* C3: a get_part call with an index outside the variant's range is fatal:
\* the error is not caught by parse_word or parse_sentence, and the next
\* word is not processed.
C3_OutOfRangeFatal == [][OutOfRangeCall => pc' = "crashed"]_vars

\* the walk of the current top-level word is over
WalkOver == stack = <<>> /\ visited # <<>>
AllValid == \A k \in 1..Len(visited) : visited[k].valid

\* the k-th call of the walk got a validated PrefixedSuffixedMorpheme answer
\* whose three parts are all non-empty
ThreeParts(k) ==
    /\ visited[k].valid
    /\ response_type(visited[k].node) = PrefixedSuffixedMorphemeResponse
    /\ \A i \in 0..2 : Part(k, i) # <<>>

\* the call that follows the k-th call by d is the call for child slot i of
\* the k-th call, made with the part of index i
ChildCall(k, d, i) ==
    /\ k + d <= Len(visited)
    /\ visited[k + d].node = children(visited[k].node)[i + 1]
    /\ visited[k + d].word = Part(k, i)
    /\ response_type(visited[k + d].node) = MorphemeTypeResponse

\* C4 as stated: after a validated PrefixedSuffixedMorpheme answer with
\* three non-empty parts, a question is issued for each of the three parts,
\* in the order prefix, middle, suffix.
C4_AllThreeVisited ==
    WalkOver =>
        \A k \in 1..Len(visited) :
            ThreeParts(k) => \A i \in 0..2 : ChildCall(k, i + 1, i)

\* C4 amended: the questions for the three parts are issued in the order
\* prefix, middle, suffix, each one provided the answers to the ones before
\* it passed validation.
C4_ThreeVisitedUntilFailure ==
    WalkOver =>
        \A k \in 1..Len(visited) :
            ThreeParts(k) =>
                \A i \in 0..2 :
                    (\A j \in 0..(i - 1) : visited[k + j + 1].valid)
                    => ChildCall(k, i + 1, i)

C4_Witness ==
    /\ WalkOver
    /\ \E k \in 1..Len(visited) :
           /\ ThreeParts(k)
           /\ \A i \in 0..2 : ChildCall(k, i + 1, i)
           /\ visited[k + 1].word = A
           /\ visited[k + 3].word = B

\* a call made by the k-th call of the walk for its child slot i
SlotEntered(k, i) ==
    \E j \in (k + 1)..Len(visited) :
        /\ visited[j].node = children(visited[k].node)[i + 1]
        /\ visited[j].word = Part(k, i)
        /\ visited[j].indent = visited[k].indent + 1

Slots(k) == 0..(Len(children(visited[k].node)) - 1)

C5_Rule ==
    (WalkOver /\ AllValid) =>
        /\ raised = "none"
        /\ \A k \in 1..Len(visited) : \A i \in Slots(k) :
               SlotEntered(k, i) <=>
                   (children(visited[k].node)[i + 1] # NoChild /\ Part(k, i) # <<>>)

RootPrefixAbsent ==
    /\ WalkOver
    /\ AllValid
    /\ visited[1].node = response_tree
    /\ visited[1].response.obj.prefix = JNull

RootChildOneGetsWord ==
    /\ ~SlotEntered(1, 0)
    /\ Len(visited) >= 2
    /\ visited[2].node = children(response_tree)[2]
    /\ visited[2].word = visited[1].word

\* C5 as stated: in a walk without a validation failure, child slot i is
\* entered exactly if it holds a node and get_part(word, i) is non-empty,
\* and no error is raised; with the prefix absent at the root, child 0 is
\* not entered and child 1 is entered with the whole word.
C5_RecurseIffPart ==
    /\ C5_Rule
    /\ RootPrefixAbsent => RootChildOneGetsWord

\* C5 amended: the same, the second half for a non-empty word (for the
\* empty word neither child is entered).
C5_RecurseIffPartNonEmptyWord ==
    /\ C5_Rule
    /\ (RootPrefixAbsent /\ visited[1].word # <<>>) => RootChildOneGetsWord
    /\ (RootPrefixAbsent /\ visited[1].word = <<>>) => Len(visited) = 1

\* a finished walk of a non-empty word, prefix absent at the root, in which
\* the SuffixedPronoun node skipped its second child
C5_Witness ==
    /\ RootPrefixAbsent
    /\ visited[1].word = AB
    /\ RootChildOneGetsWord
    /\ visited[2].response.obj.suffix = JNull
    /\ ~SlotEntered(2, 1)
    /\ SlotEntered(2, 0)

\* the steps a call of parse_word on a node takes at most: its own return,
\* and for each child slot one turn of the loop and the steps of the child
RECURSIVE Work(_)
SlotWork(slots) ==
    LET RECURSIVE Sum(_)
        Sum(j) == IF j > Len(slots) THEN 0
                  ELSE 1 + (IF slots[j] = NoChild THEN 0 ELSE Work(slots[j])) + Sum(j + 1)
    IN  Sum(1)
Work(node) == 1 + SlotWork(children(node))

\* the steps the calls on the stack still have to take
Remaining ==
    LET RECURSIVE Sum(_)
        Sum(d) == IF d > Len(stack) THEN 0
                  ELSE 1 + SlotWork(SubSeq(children(stack[d].node), stack[d].i + 1,
                                           Len(children(stack[d].node))))
                       + Sum(d + 1)
    IN  Sum(1)

\* C6: a walk started at the root with depth 0 terminates, and no call of
\* parse_word runs at a depth greater than 4: the root call starts at depth
\* 0, every step of a walk takes off at least one of the finitely many
\* steps the calls on the stack have left, and a walk always has a step to
\* take.
C6_TerminatesWithinDepth ==
    /\ [](\A k \in 1..Len(visited) : visited[k].indent <= 4)
    /\ [](\A d \in 1..Len(stack) : stack[d].indent = d - 1)
    /\ [][stack # <<>> => Remaining' < Remaining]_vars
    /\ [](stack # <<>> => ENABLED Next)

\* a call at depth 4 that has returned, the walk over
C6_Witness ==
    /\ WalkOver
    /\ raised = "none"
    /\ \E k \in 1..Len(visited) : visited[k].indent = 4

\* the payload the list question of the current sentence returned
ListAnswer ==
    IF Len(queue.messages) >= 3 /\ queue.messages[3].role = "assistant"
    THEN queue.messages[3].tool_calls[1].arguments
    ELSE EmptyPayload

NoWords ==
    \/ ~model_validate_json(ListWordsResponse, ListAnswer)
    \/ ListAnswer.obj.words.items = <<>>

UserMessages == SelectSeq(queue.messages, LAMBDA m : m.role = "user")

\* C7: when the list answer is the empty list or fails validation, the
\* trace of the sentence is its header only, no node question is issued for
\* the sentence, and parse_sentence returns.
C7_NoWordsHeaderOnly ==
    (sentIdx >= 1 /\ NoWords) =>
        /\ Last(file) = SentenceLine(Corpus[sentIdx])
        /\ Len(UserMessages) = 1
        /\ stack = <<>>
        /\ pc \in {"parse", "done"}

\* a second sentence whose list payload failed validation, after a first
\* sentence with word blocks
C7_Witness ==
    /\ sentIdx = 2
    /\ ListAnswer.kind = "text"
    /\ completion.status_code = HTTPStatus_OK
    /\ Len(file) > 2
    /\ Last(file).kind = "Sentence"

\* a request is made in this step and its completion has a status other
\* than OK
FailedRequestStep == nreq' # nreq /\ completion'.status_code # HTTPStatus_OK

\* C8: register_response on a completion with a non-success status appends
\* no entry (the step's last entry is the question it registered), sets
\* the payload to the empty string whatever it was, and request returns
\* the empty string.
C8_FailedResponseEmptyPayload ==
    [][FailedRequestStep =>
          /\ queue'.argument = EmptyPayload
          /\ response' = EmptyPayload
          /\ Last(queue'.messages).role = "user"
          /\ Len(queue'.messages) =
                 IF sentIdx' = sentIdx THEN Len(queue.messages) + 1 ELSE 2]_vars

\* a failed request in a conversation that holds an earlier successful
\* exchange with a non-empty payload
C8_Witness ==
    /\ completion.status_code = "INTERNAL_SERVER_ERROR"
    /\ queue.argument = EmptyPayload
    /\ \E k \in 1..Len(queue.messages) :
           /\ queue.messages[k].role = "assistant"
           /\ queue.messages[k].tool_calls[1].arguments # EmptyPayload

\* C9: within one conversation the message sequence only grows at its end:
\* the sequence before a step is a prefix of the sequence after it.
C9_AppendOnly ==
    [][sentIdx' = sentIdx => IsPrefix(queue.messages, queue'.messages)]_vars

\* a conversation that has grown by questions, a successful and a failed
\* response
C9_Witness ==
    /\ Len(queue.messages) >= 6
    /\ completion.status_code = "INTERNAL_SERVER_ERROR"
    /\ Last(queue.messages).role = "user"

\* the display line and the parts of a validated answer e with an absent
\* optional field
AbsentShown(e, line) ==
    LET shape == response_type(e.node)
        res   == e.response.obj
        part(i) == get_part(shape, res, e.word, i)
    IN  /\ (shape = PrefixedAnalyticalWordResponse /\ res.prefix = JNull)
              => (line = <<"Prefix: ", empty>> /\ part(0) = Returned(<<>>))
        /\ (shape = SuffixedPronounResponse /\ res.suffix = JNull)
              => (line = <<"Suffix: ", empty>> /\ part(1) = Returned(<<>>))
        /\ (shape = PrefixedSuffixedMorphemeResponse /\ res.prefix = JNull)
              => (line[2] = empty /\ part(0) = Returned(<<>>))
        /\ (shape = PrefixedSuffixedMorphemeResponse /\ res.suffix = JNull)
              => (line[4] = empty /\ part(2) = Returned(<<>>))
        /\ \A p \in {2, 4} \cap (1..Len(line)) : line[p] # <<"N", "o", "n", "e">>

\* C10: an absent optional field is shown as U+2205 in the display line
\* written for the answer and gives the empty string in get_part, never the
\* text None.
C10_AbsentRendersEmpty ==
    [][(nreq' # nreq /\ sentIdx' = sentIdx /\ Last(visited').valid) =>
          /\ Last(file').kind = "answer"
          /\ AbsentShown(Last(visited'), Last(file').text)]_vars

\* the display line of a PrefixedSuffixedMorpheme answer with both fields
\* absent
C10_Witness ==
    /\ visited # <<>>
    /\ Last(visited).valid
    /\ response_type(Last(visited).node) = PrefixedSuffixedMorphemeResponse
    /\ Last(visited).response.obj = [prefix |-> JNull, suffix |-> JNull]
    /\ Last(file).text = <<"Prefix: ", empty, ", Suffix: ", empty>>
    /\ Top.i = 0

\* the fields of a shape that may hold None
OptionalFields(shape) ==
    {f \in DOMAIN Fields(shape) : Fields(shape)[f] = "str | None"}

\* a payload that is an answer of the shape but for optional fields it omits
OmitsOptional(shape, payload) ==
    /\ payload.kind = "object"
    /\ DOMAIN payload.obj # DOMAIN Fields(shape)
    /\ DOMAIN payload.obj \subseteq DOMAIN Fields(shape)
    /\ (DOMAIN Fields(shape) \ DOMAIN payload.obj) \subseteq OptionalFields(shape)
    /\ \A f \in DOMAIN payload.obj : Conforms(payload.obj[f], Fields(shape)[f])

\* C11: a payload that omits an optional field (prefix of
\* PrefixedAnalyticalWord, suffix of SuffixedPronoun, prefix or suffix of
\* PrefixedSuffixedMorpheme) passes validation.
C11_OmittedFieldValidates ==
    \A k \in 1..Len(visited) :
        OmitsOptional(response_type(visited[k].node), visited[k].response)
        => visited[k].valid

\* the six categories the MorphemeType question names
MorphemeCategories ==
    {<<"preformative">>, <<"passive prefix">>, <<"verbal stem morpheme">>,
     <<"verbal ending">>, <<"nominal ending">>, <<"emphatic marker">>}

\* C12: a MorphemeType answer passes validation only if its morpheme_type
\* is one of the six categories; an answer with any other string fails
\* validation and gets no answer line.
C12_OnlySixCategories ==
    \A k \in 1..Len(visited) :
        (response_type(visited[k].node) = MorphemeTypeResponse /\ visited[k].valid)
        => visited[k].response.obj.morpheme_type.s \in MorphemeCategories

\* a request is made in this step for the question of a tree node
NodeQuestionStep == nreq' # nreq /\ sentIdx' = sentIdx

\* C13: within every call of parse_word the child slots are taken one by
\* one in increasing index order, and only by the call that is innermost:
\* the index of a call moves by one and only while no call of a child is
\* open, a question is issued only for the slot the innermost call has
\* reached and with the part of that index, the call open below a call is
\* the one of the slot it took last, and the calls of a walk follow the
\* order in which the tree lists its nodes (parent before child, child i
\* and all below it before child i+1).
C13_SlotsInOrder ==
    /\ [][\A d \in 1..Len(stack) :
             (d <= Len(stack') /\ stack'[d] # stack[d]) =>
                 /\ d = Len(stack)
                 /\ stack'[d] = [stack[d] EXCEPT !.i = @ + 1]]_vars
    /\ [][(NodeQuestionStep /\ stack # <<>>) =>
             /\ Last(visited').node = children(Top.node)[Top.i + 1]
             /\ Last(visited').word =
                    get_part(response_type(Top.node), Top.res, Top.word, Top.i).value
             /\ Last(visited').indent = Top.indent + 1]_vars
    /\ [](\A d \in 1..(Len(stack) - 1) :
             /\ stack[d].i >= 1
             /\ stack[d + 1].node = children(stack[d].node)[stack[d].i])
    /\ [](\A k \in 1..(Len(visited) - 1) : visited[k].node < visited[k + 1].node)

\* the three children of the PrefixedSuffixedMorpheme node have been walked
\* one after the other and the call on that node is about to return
C13_Witness ==
    /\ Len(stack) = 4
    /\ Top.node = 4
    /\ Top.i = 3
    /\ Len(visited) = 7
    /\ \A k \in 1..7 : visited[k].node = k

\* the node question of this step got a payload that fails validation
NodeFailureStep == NodeQuestionStep /\ ~Last(visited').valid

\* C14: when validation fails at a node, the trace gets the node's Word
\* line and the separator but no answer line, the walk of the top-level
\* word is over with the failure caught by parse_sentence (its warning is
\* printed, parse goes on), no call of the walk other than its last one has
\* failed, and the next node question issued in the sentence is the root
\* question of the next word.
C14_FailureAbortsWord ==
    /\ [][NodeFailureStep =>
             /\ file' = file \o <<Blank,
                                  WordLine(Last(visited').indent, Last(visited').word),
                                  Blank>>
             /\ stack' = <<>>
             /\ raised' = "ValidationError"
             /\ Last(console') = Printed("Sentence parsing failed!")
             /\ pc' \in {"words", "parse", "done"}]_vars
    /\ [](\A k \in 1..(Len(visited) - 1) : visited[k].valid)
    /\ []((visited # <<>> /\ ~Last(visited).valid) => stack = <<>>)
    /\ [][(NodeQuestionStep /\ visited # <<>> /\ ~Last(visited).valid) =>
             /\ wi' = wi + 1
             /\ visited' = <<Last(visited')>>
             /\ Last(visited').node = response_tree
             /\ Last(visited').indent = 0
             /\ Last(visited').word = words[wi + 1]]_vars

\* the first MorphemeType question of a walk failed with its two siblings
\* and the second child of the SuffixedPronoun node not yet visited, and
\* the sentence has a next word
C14_Witness ==
    /\ visited # <<>>
    /\ Last(visited).node = 5
    /\ ~Last(visited).valid
    /\ completion.status_code = HTTPStatus_OK
    /\ stack = <<>>
    /\ pc = "words"
    /\ wi < Len(words)

\* the word-list shape and the five answer shapes of the tree
Shapes ==
    {ListWordsResponse, PrefixedAnalyticalWordResponse, SuffixedPronounResponse,
     CompleteFormResponse, PrefixedSuffixedMorphemeResponse, MorphemeTypeResponse}

\* C15: the empty payload fails validation against every shape, and a
\* request that ends with a non-success status returns the empty payload
\* and goes on as a validation failure: the warning is printed, a failed
\* list question gives the sentence zero words, a failed node question
\* ends the walk of the word with the failure caught, and no exception
\* leaves parse_sentence.
C15_ServiceFailureFailsValidation ==
    /\ [](\A shape \in Shapes : ~model_validate_json(shape, EmptyPayload))
    /\ [][FailedRequestStep =>
             /\ response' = EmptyPayload
             /\ Warned
             /\ stack' = <<>>
             /\ IF sentIdx' # sentIdx
                THEN words' = <<>> /\ pc' \in {"parse", "done"}
                ELSE /\ ~Last(visited').valid
                     /\ raised' = "ValidationError"
                     /\ pc' \in {"words", "parse", "done"}]_vars
    /\ [](pc \in {"words", "parse", "done"})

\* the request for the PrefixedSuffixedMorpheme question of a walk failed
\* and the walk is over
C15_Witness ==
    /\ completion.status_code = "INTERNAL_SERVER_ERROR"
    /\ visited # <<>>
    /\ Last(visited).node = 4
    /\ Last(visited).response = EmptyPayload
    /\ response = EmptyPayload
    /\ stack = <<>>
    /\ raised = "ValidationError"
    /\ Last(console) = Printed("Sentence parsing failed!")

\* the Word lines the trace holds for the current sentence
SentenceWordLines ==
    LET header == CHOOSE k \in 1..Len(file) :
                      /\ file[k].kind = "Sentence"
                      /\ \A j \in (k + 1)..Len(file) : file[j].kind # "Sentence"
    IN  SelectSeq(SubSeq(file, header + 1, Len(file)), LAMBDA l : l.kind = "Word")

\* C16: the conversation of a sentence begins with the system message and
\* the list question of that sentence; a new sentence starts from these two
\* entries alone; within a sentence every step keeps all entries recorded
\* so far, so the context of a question holds the entries of all earlier
\* walks of the sentence, failed ones included; and the questions of the
\* conversation after the list question are, one for one and in order, the
\* parse_word calls of this sentence's words, none of another sentence.
C16_ConversationPerSentence ==
    /\ [](sentIdx >= 1 =>
             /\ Len(queue.messages) >= 2
             /\ queue.messages[1] = Message("system", system_message, None)
             /\ queue.messages[2] =
                    Message("user", [template |-> <<"Text: ", ListWordsResponse>>,
                                     arg |-> Corpus[sentIdx]], None)
             /\ Len(UserMessages) = 1 + Len(SentenceWordLines)
             /\ \A k \in 1..Len(SentenceWordLines) :
                    UserMessages[k + 1].content.arg = SentenceWordLines[k].text)
    /\ [][sentIdx' # sentIdx =>
             /\ Len(queue'.messages) \in {2, 4}
             /\ \A k \in 3..Len(queue'.messages) :
                    queue'.messages[k].role \in {"assistant", "tool"}]_vars
    /\ [][sentIdx' = sentIdx => IsPrefix(queue.messages, queue'.messages)]_vars
    /\ [][NodeQuestionStep =>
             queue'.messages[Len(queue.messages) + 1] =
                 Message("user",
                         [template |-> <<"Text: ", response_type(Last(visited').node)>>,
                          arg |-> Last(visited').word], None)]_vars

\* the second word of the second sentence is being walked and the
\* conversation holds the entries of the first word's walk, which failed
C16_Witness ==
    /\ sentIdx = 2
    /\ wi = 2
    /\ stack # <<>>
    /\ Len(UserMessages) > 1 + Len(visited)
    /\ \E k \in 1..Len(console) : console[k] = Printed("Sentence parsing failed!")
    /\ Len(SelectSeq(file, LAMBDA l : l.kind = "Word" /\ l.indent = 0)) = 2

Lines(kind) == Len(SelectSeq(file, LAMBDA l : l.kind = kind))

\* C17: a call of parse_word at depth d (d calls are open above it) writes
\* its Word line indented by 4*d spaces and then, if its answer validates,
\* the rendered answer indented by 4*(d+1) spaces, both before any step of
\* a child, whose Word line is thus indented by 4*(d+1) spaces; nothing
\* else writes during a walk; and parse_sentence writes one separator when
\* the root call returns or fails, so that next to the empty line leading
\* every Word line the trace holds one separator per finished top-level
\* walk.
C17_TraceNested ==
    /\ [][NodeQuestionStep =>
             LET e == Last(visited')
                 d == Len(stack)
                 wordLine == [indent |-> 4 * d, kind |-> "Word", text |-> e.word]
                 answerLine == [indent |-> 4 * (d + 1), kind |-> "answer",
                                text |-> str(response_type(e.node), e.response.obj)]
             IN  /\ e.indent = d
                 /\ file' = file \o <<Blank, wordLine>>
                                 \o (IF e.valid THEN <<answerLine>> ELSE <<Blank>>)]_vars
    /\ [][(nreq' = nreq /\ stack # <<>>) =>
             file' = IF stack' = <<>> THEN Append(file, Blank) ELSE file]_vars
    /\ [](Lines("blank") =
              Lines("Word") + Walked - (IF stack = <<>> THEN 0 ELSE 1))

\* the answer line of a call at depth 4, below the Word lines of the five
\* calls open at depths 0 to 4
C17_Witness ==
    /\ Len(stack) = 5
    /\ Last(file) = [indent |-> 20, kind |-> "answer",
                     text |-> <<"Morpheme type: ", <<"preformative">>>>]
    /\ file[Len(file) - 1] = [indent |-> 16, kind |-> "Word", text |-> A]
    /\ Walked = 2

\* C18: with the authored tree, get_part raises for no child slot of any
\* open call, whether the slot holds a node or None, so no walk ends with
\* ValueError.
C18_NoOutOfRangeIndex ==
    /\ \A d \in 1..Len(stack) :
           \A i \in 0..(Len(children(stack[d].node)) - 1) :
               ~get_part(response_type(stack[d].node), stack[d].res,
                         stack[d].word, i).raised
    /\ raised # "ValueError"

\* the root call has evaluated get_part for both of its slots, the first
\* of which holds None, after the walk went through the whole tree
C18_Witness ==
    /\ Len(stack) = 1
    /\ Top.node = response_tree
    /\ children(Top.node)[1] = NoChild
    /\ Top.i = 2
    /\ Len(visited) = Cardinality(Nodes)

\* C19: every request is preceded in its step by the registration of one
\* user message, the question, and followed by nothing but its response;
\* every call of parse_word makes one request, and nothing else does but
\* the list question; taking a word issues its root question; no node is
\* called twice in the walk of one top-level word, so that a walk makes at
\* least 1 and at most 8 requests.
C19_OneRequestPerNode ==
    /\ [][nreq' # nreq =>
             LET before == IF sentIdx' = sentIdx THEN queue.messages
                           ELSE <<Message("system", system_message, None)>>
                 added  == SubSeq(queue'.messages, Len(before) + 1, Len(queue'.messages))
             IN  /\ nreq' = nreq + 1
                 /\ IsPrefix(before, queue'.messages)
                 /\ Len(added) \in {1, 3}
                 /\ added[1].role = "user"
                 /\ \A k \in 2..Len(added) : added[k].role \in {"assistant", "tool"}]_vars
    /\ [][NodeQuestionStep =>
             Len(visited') = (IF stack = <<>> THEN 0 ELSE Len(visited)) + 1]_vars
    /\ [][nreq' = nreq => (queue' = queue /\ visited' = visited)]_vars
    /\ [][wi' = wi + 1 => (NodeQuestionStep /\ Len(visited') = 1)]_vars
    /\ [](\A j, k \in 1..Len(visited) : visited[j].node = visited[k].node => j = k)
    /\ [](Len(visited) <= 8)

\* a finished walk that made a request for each of the 8 nodes of the tree
C19_Witness ==
    /\ WalkOver
    /\ AllValid
    /\ Len(visited) = 8
    /\ {visited[k].node : k \in 1..Len(visited)} = Nodes

====
